---- MODULE Spec2Model ----
(***************************************************************************)
(* The interruptible graph runtime of agents_graph.py: the two-node graph  *)
(* agent -> human_approval -> agent, compiled with a MemorySaver           *)
(* checkpointer, driven for one execution thread by run / resume calls.    *)
(* The node bodies, the router and the edges are translated from           *)
(* src/agents_graph.py; the executor loop, the interrupt primitive and the *)
(* checkpoint store belong to the graph framework and follow sections 3    *)
(* and 4 of the specification.                                             *)
(*                                                                         *)
(* Spec is one thread driven by run and resume; SpecRestart adds a caller  *)
(* that rebuilds the executor on the same checkpointer; SpecCalls adds     *)
(* resume calls the runtime rejects and get_state; SpecMerge applies the   *)
(* append reducer of agent_with_hitl.py to bounded inputs; SpecStore runs  *)
(* resume calls in flight at once on the threads of one checkpointer;      *)
(* SpecTerminates is Spec with the executor's steps taken fairly;          *)
(* SpecReview runs the graphs of agent_with_hitl.py, agent_with_interrupt  *)
(* .py and sample/simple_agent.py under the main() of their files or a     *)
(* client of the compiled graph; SpecSession drives the thread from the    *)
(* page of streamlit_app_graph.py.                                         *)
(***************************************************************************)
EXTENDS Integers, Sequences, FiniteSets, TLC

VARIABLES
    checkpoint,       \* the record the Checkpoint Store holds for the thread
    pc,               \* position of the executor: "idle" or inside a node
    state,            \* the executor's transient copy of State
    resumes,          \* resume values recorded for the node being executed
    resume_value,     \* value of Command(resume=...) not yet handed to a suspend call
    tool_calls,       \* _execute_tools_with_approval: its argument
    idx,              \* _execute_tools_with_approval: position of the for loop
    tool_messages,    \* _execute_tools_with_approval: the list being built
    feedback,         \* _execute_tools_with_approval: value returned by interrupt
    interrupt_count,  \* suspend calls made so far in this execution of the node
    result,           \* status of the last ExecutionResult handed to the caller
    invocations,      \* correlation id -> number of tool collaborator invocations
    attemptInvoked,   \* correlation ids invoked during the current execution of the node
    entryState,       \* the State the node being executed was invoked with
    suspensions,      \* suspensions raised since the gating node was freshly entered
    resumeCalls,      \* resume calls made since the gating node was freshly entered
    executed,         \* names of the nodes completed so far, in order
    failures,         \* number of node failures surfaced to the caller
    error,            \* the node whose failure the last Failed result reports
    feedbacks,        \* values the suspend calls of the current execution returned
    lastResume,       \* the value the caller passed to the latest resume call
    restarted,        \* a fresh executor was constructed while the thread was suspended
    inspected,        \* get_state has been called on the thread
    writes,           \* number of Checkpoint writes made for the thread
    merge_in,         \* a channel value and two updates handed to the append reducer
    merge_out,        \* what the reducer made of them, one update at a time and at once
    store,            \* thread id -> the record the Checkpoint Store holds for it
    origin,           \* thread id -> the record the store held before the calls
    in_flight,        \* the resume calls in flight: thread id, value, position, copy of State
    saved,            \* thread id -> the messages written by completed steps of the calls
    decisions,        \* resume values the caller gave, by suspension, since the gating node was freshly entered
    callSteps,        \* names of the nodes completed since the caller's call began
    graph,            \* which compiled graph thread "1" runs: "hitl", "interrupt" or "simple"
    caller,           \* who drives it: main() of the file ("console") or a client of the graph
    tool_node_build,  \* how the installed ToolNode finds the ToolCalls to execute
    thread_messages,  \* state["messages"] of the thread
    snapshot_next,    \* the node the thread executes next ("none": no thread, "end": finished)
    interrupts,       \* value of the pending interrupt (<<>> when none is pending)
    running,          \* a stream call is executing nodes
    resume,           \* Command(resume=...) not yet returned by interrupt
    approval_data,    \* the values interrupt has returned to human_review_node
    approved,         \* state["approved"] of simple_agent.py
    ran_tools,        \* ids of the ToolCalls the tools node has executed
    final_answer,     \* finalize_node has produced the final answer
    main_pc,          \* main(): position in its loop
    current_state,    \* main(): the input of its next stream call
    stream_raised,    \* the last stream call ended with an exception
    reviews,          \* the decisions given so far, each with the ToolCall ids it was about
    session_messages, \* st.session_state.messages: the transcript shown on the page
    waiting_for_approval, \* st.session_state.waiting_for_approval
    final_result,     \* st.session_state.final_result
    thread_id,        \* st.session_state.thread_id
    trace_id,         \* st.session_state.trace_id
    tool_info,        \* st.session_state.tool_info (<<>>: the key does not exist)
    script_running,   \* a script run is inside run_agent: no page is offered
    config_thread_id  \* run_agent: config["configurable"]["thread_id"] of the last stream call

\* the variables of the graphs with a human_review node and of their drivers
review_vars == <<graph, caller, tool_node_build, thread_messages, snapshot_next,
                 interrupts, running, resume, approval_data, approved,
                 ran_tools, final_answer, main_pc, current_state,
                 stream_raised, reviews>>

\* the variables of the Streamlit session
session_vars == <<session_messages, waiting_for_approval, final_result, thread_id,
                  trace_id, tool_info, script_running, config_thread_id>>

\* the variables of the reducer, of the calls in flight and of the other graphs
detached == <<merge_in, merge_out, store, origin, in_flight, saved, review_vars>>

\* the same with the Streamlit session: what a caller without a page leaves alone
apart == <<detached, session_vars>>

\* what no step of the executor and no node touches
others == <<restarted, inspected, apart>>

vars == <<checkpoint, pc, state, resumes, resume_value, tool_calls, idx,
          tool_messages, feedback, interrupt_count, result, invocations,
          attemptInvoked, entryState, suspensions, resumeCalls, executed,
          failures, error, feedbacks, lastResume, others, writes,
          decisions, callSteps>>

node_locals == <<tool_calls, idx, tool_messages, feedback, interrupt_count>>

\* the variables of one thread of the compiled graph
thread_vars == <<checkpoint, pc, state, resumes, resume_value, node_locals,
                 result, invocations, attemptInvoked, entryState, suspensions,
                 resumeCalls, executed, failures, error, feedbacks, lastResume,
                 restarted, inspected, writes, decisions, callSteps>>

(***************************************************************************)
(* Bounds of the model.                                                    *)
(***************************************************************************)
MaxCalls == 2      \* most ToolCalls one assistant message carries
MaxToolCalls == 3  \* most ToolCalls the model issues in one thread
MaxFailures == 1   \* most node failures of one thread
MaxLen == 2        \* longest message sequence handed to the append reducer
MaxOverlap == 2    \* most resume calls in flight at once

Ids == 1..MaxToolCalls

(***************************************************************************)
(* Tools, messages and State.                                              *)
(***************************************************************************)
web_search_name == "tavily_search"
write_file_name == "write_file"

\* tools = [web_search, write_file]; tools_by_name is keyed by these names
tools_by_name == {web_search_name, write_file_name}

\* values a caller may resume with: the two buttons of the chat UI, and
\* "OTHER" for any other value a caller of the graph may pass
ResumeValues == {"APPROVE", "DENY", "OTHER"}

END == "__end__"

NoEnvelope == [name |-> "none", args |-> FALSE, html |-> FALSE]

ToolCall(id, name) == [id |-> id, name |-> name]

HumanMessage == [type |-> "human", tool_calls |-> <<>>, tool_call_id |-> 0,
                 content |-> "input"]

AIMessage(calls) == [type |-> "ai", tool_calls |-> calls, tool_call_id |-> 0,
                     content |-> "response"]

ToolMessage(content, id) == [type |-> "tool", tool_calls |-> <<>>,
                             tool_call_id |-> id, content |-> content]

EmptyState == [messages |-> <<>>, trace_id |-> "unset"]

NoCheckpoint == [exists |-> FALSE, state |-> EmptyState, next |-> "none",
                 suspended |-> FALSE, resumes |-> <<>>, seq |-> 0,
                 envelope |-> NoEnvelope]

Last(s) == s[Len(s)]

\* the id add_messages finds on a message: the thread id given to the user
\* message, the provider's id of a response (one per model call, told apart
\* here by the first correlation id it issued), and the uuid a tool-result
\* message without id is given (one per correlation id answered)
MessageId(m) ==
    CASE m.type = "human" -> <<"thread_id", 0>>
      [] m.type = "ai" -> <<"run", IF m.tool_calls = <<>> THEN 0
                                    ELSE m.tool_calls[1].id>>
      [] m.type = "tool" -> <<"uuid", m.tool_call_id>>

\* add_messages, one message of the update after the other: a message whose
\* id is already in the list replaces the one that has it, any other is appended
RECURSIVE MergeById(_, _)
MergeById(merged, right) ==
    IF right = <<>> THEN merged
    ELSE LET m == Head(right)
             hit == {p \in 1..Len(merged) : MessageId(merged[p]) = MessageId(m)}
         IN  MergeById(IF hit = {} THEN Append(merged, m)
                       ELSE [merged EXCEPT ![CHOOSE p \in hit : TRUE] = m],
                       Tail(right))

\* variant: the channel has no reducer, the update replaces the value
add_messages_NoReducer(left, right) == right

\* MessagesState: the reducer of the messages channel
add_messages(left, right) == MergeById(left, right)

\* the update of a node merged into State: messages append, other channels stay
MergeUpdate(st, update) ==
    [st EXCEPT !.messages = add_messages(st.messages, update.messages)]

RECURSIVE CountCalls(_)
CountCalls(msgs) ==
    IF msgs = <<>> THEN 0
    ELSE Len(Last(msgs).tool_calls) + CountCalls(SubSeq(msgs, 1, Len(msgs) - 1))

\* the other bound tool
OtherTool(name) == IF name = web_search_name THEN write_file_name ELSE web_search_name

\* the tool the j-th ToolCall names when the first one names `first`
NameAt(first, j) == IF j % 2 = 1 THEN first ELSE OtherTool(first)

Min(a, b) == IF a < b THEN a ELSE b

\* the assistant messages the model may answer with: k ToolCalls with fresh
\* correlation ids, naming the bound tools in turn
Responses(msgs) ==
    LET base == CountCalls(msgs)
    IN  { AIMessage([j \in 1..k |-> ToolCall(base + j, NameAt(first, j))]) :
            first \in tools_by_name, k \in 0..Min(MaxCalls, MaxToolCalls - base) }

(***************************************************************************)
(* The graph of agents_graph.py: node bodies, router and edges.            *)
(***************************************************************************)

\* agent_node returns the model's response as its sparse update
agent_node(st, response) == [messages |-> <<response>>]

\* variant: the test for ToolCalls is left out
should_continue_AnyAI(st) ==
    IF Last(st.messages).type = "ai" THEN "human_approval" ELSE "end"

\* should_continue: the label chosen after the agent node, on the merged State
should_continue(st) ==
    LET last_message == Last(st.messages)
    IN  IF last_message.type = "ai" /\ last_message.tool_calls # <<>>
        THEN "human_approval"
        ELSE "end"

\* the path map of add_conditional_edges("agent", should_continue, {...})
AgentPathMap(label) ==
    CASE label = "human_approval" -> "human_approval"
      [] label = "end" -> END

\* add_edge(START, "agent")
StartEdge == "agent"

\* variant: the gating node wired to END
HumanApprovalEdge_End == END

\* add_edge("human_approval", "agent")
HumanApprovalEdge == "agent"

\* the node the executor runs after `node` completed with merged State st
NextNode(node, st) ==
    CASE node = "agent" -> AgentPathMap(should_continue(st))
      [] node = "human_approval" -> HumanApprovalEdge

\* tool_data, the payload handed to interrupt for one ToolCall
tool_data(tool_call) ==
    [name |-> tool_call.name,
     args |-> tool_call.name \in {web_search_name, write_file_name},
     html |-> tool_call.name = write_file_name]

\* variant: the observation is not correlated with its ToolCall
ObservationMessage_NoId(tool_call) == ToolMessage("observation", 0)

\* the tool-result message of an approved, executed ToolCall
ObservationMessage(tool_call) == ToolMessage("observation", tool_call.id)

\* variant: every refusal is correlated with the first ToolCall of the message
RefusalMessage_FirstId(tool_call) == ToolMessage("refused", tool_calls[1].id)

\* the tool-result message of a ToolCall that was not approved
RefusalMessage(tool_call) == ToolMessage("refused", tool_call.id)

\* variant: everything but a literal "DENY" counts as approval
IsApproved_NotDeny(value) == value # "DENY"

\* the branch test after interrupt returned
IsApproved(value) == value = "APPROVE"

(***************************************************************************)
(* The executor: completing a node, suspending, failing.                   *)
(***************************************************************************)

\* variant: the recorded resume values outlive the node that consumed them
CompleteNode_KeepResumes(node, update) ==
    LET merged == MergeUpdate(state, update)
        next == NextNode(node, merged)
    IN  /\ state' = merged
        /\ executed' = Append(executed, node)
        /\ callSteps' = Append(callSteps, node)
        /\ checkpoint' = [exists |-> TRUE, state |-> merged, next |-> next,
                          suspended |-> FALSE, resumes |-> resumes, seq |-> 0,
                          envelope |-> NoEnvelope]
        /\ writes' = writes + 1
        /\ UNCHANGED <<resumes, resume_value>>
        /\ entryState' = merged
        /\ IF next = END
           THEN pc' = "idle" /\ result' = "Done"
           ELSE pc' = next /\ result' = "none"

\* variant: the Checkpoint is written only when the call returns to the caller
CompleteNode_PersistOnExit(node, update) ==
    LET merged == MergeUpdate(state, update)
        next == NextNode(node, merged)
    IN  /\ state' = merged
        /\ executed' = Append(executed, node)
        /\ callSteps' = Append(callSteps, node)
        /\ IF next = END
           THEN /\ checkpoint' = [exists |-> TRUE, state |-> merged, next |-> next,
                                  suspended |-> FALSE, resumes |-> <<>>, seq |-> 0,
                                  envelope |-> NoEnvelope]
                /\ writes' = writes + 1
           ELSE UNCHANGED <<checkpoint, writes>>
        /\ resumes' = <<>>
        /\ resume_value' = "none"
        /\ entryState' = merged
        /\ IF next = END
           THEN pc' = "idle" /\ result' = "Done"
           ELSE pc' = next /\ result' = "none"

\* a node returned `update`: merge it, persist the Checkpoint, ask the router
CompleteNode(node, update) ==
    LET merged == MergeUpdate(state, update)
        next == NextNode(node, merged)
    IN  /\ state' = merged
        /\ executed' = Append(executed, node)
        /\ callSteps' = Append(callSteps, node)
        /\ checkpoint' = [exists |-> TRUE, state |-> merged, next |-> next,
                          suspended |-> FALSE, resumes |-> <<>>, seq |-> 0,
                          envelope |-> NoEnvelope]
        /\ writes' = writes + 1
        /\ resumes' = <<>>
        /\ resume_value' = "none"
        /\ entryState' = merged
        /\ IF next = END
           THEN pc' = "idle" /\ result' = "Done"
           ELSE pc' = next /\ result' = "none"

\* a suspend call found no resume value: the node is aborted, its partial
\* update dropped, and the suspension persisted
Suspend(node, envelope) ==
    /\ checkpoint' = [exists |-> TRUE, state |-> state, next |-> node,
                      suspended |-> TRUE, resumes |-> resumes,
                      seq |-> interrupt_count + 1, envelope |-> envelope]
    /\ writes' = writes + 1
    /\ suspensions' = suspensions + 1
    /\ pc' = "idle"
    /\ result' = "Suspended"

\* variant: what the failed node had built so far is persisted
Fail_PersistPartial(node) ==
    /\ failures < MaxFailures
    /\ failures' = failures + 1
    /\ error' = node
    /\ pc' = "idle"
    /\ result' = "Failed"
    /\ checkpoint' = [checkpoint EXCEPT
                        !.state = MergeUpdate(state, [messages |-> tool_messages])]
    /\ writes' = writes + 1
    /\ UNCHANGED <<state, resumes, resume_value, suspensions, resumeCalls,
                   entryState, executed, lastResume, others, decisions,
                   callSteps>>

\* a node raised: the error goes to the caller, nothing is merged or persisted
Fail(node) ==
    /\ failures < MaxFailures
    /\ failures' = failures + 1
    /\ error' = node
    /\ pc' = "idle"
    /\ result' = "Failed"
    /\ UNCHANGED <<checkpoint, writes, state, resumes, resume_value,
                   suspensions, resumeCalls, entryState, executed, lastResume,
                   others, decisions, callSteps>>

(***************************************************************************)
(* Caller operations.                                                      *)
(***************************************************************************)

\* run on a thread without a checkpoint: the initial update is the first merge
Start ==
    /\ pc = "idle"
    /\ ~checkpoint.exists
    /\ LET merged == [MergeUpdate(EmptyState, [messages |-> <<HumanMessage>>])
                        EXCEPT !.trace_id = "trace"]
       IN  /\ state' = merged
           /\ entryState' = merged
           /\ checkpoint' = [NoCheckpoint EXCEPT !.exists = TRUE,
                                                 !.state = merged,
                                                 !.next = StartEdge]
    /\ writes' = writes + 1
    /\ pc' = StartEdge
    /\ result' = "none"
    /\ callSteps' = <<>>
    /\ UNCHANGED <<resumes, resume_value, node_locals, invocations,
                   attemptInvoked, suspensions, resumeCalls, executed,
                   failures, error, feedbacks, lastResume, others, decisions>>

\* run repeated on a thread whose last call failed: continue at the pending node
RetryRun ==
    /\ pc = "idle"
    /\ result = "Failed"
    /\ checkpoint.exists
    /\ ~checkpoint.suspended
    /\ checkpoint.next # END
    /\ state' = checkpoint.state
    /\ entryState' = checkpoint.state
    /\ resumes' = checkpoint.resumes
    /\ resume_value' = "none"
    /\ pc' = checkpoint.next
    /\ result' = "none"
    /\ callSteps' = <<>>
    /\ UNCHANGED <<checkpoint, writes, node_locals, invocations,
                   attemptInvoked, suspensions, resumeCalls, executed,
                   failures, error, feedbacks, lastResume, others, decisions>>

\* variant: the executor continues from what it holds in memory instead of
\* reloading the Checkpoint
Resume_FromMemory(value) ==
    /\ pc = "idle"
    /\ checkpoint.exists
    /\ checkpoint.suspended
    /\ state' = checkpoint.state
    /\ entryState' = checkpoint.state
    /\ resumes' = resumes
    /\ resume_value' = value
    /\ lastResume' = value
    /\ resumeCalls' = resumeCalls + 1
    /\ decisions' = Append(SubSeq(decisions, 1, checkpoint.seq - 1), value)
    /\ pc' = checkpoint.next
    /\ result' = "none"
    /\ callSteps' = <<>>
    /\ UNCHANGED <<checkpoint, writes, node_locals, invocations, attemptInvoked,
                   suspensions, executed, failures, error, feedbacks,
                   restarted, inspected, detached>>

\* resume(thread_id, value): reload the Checkpoint, re-invoke the suspended node
Resume(value) ==
    /\ pc = "idle"
    /\ checkpoint.exists
    /\ checkpoint.suspended
    /\ state' = checkpoint.state
    /\ entryState' = checkpoint.state
    /\ resumes' = checkpoint.resumes
    /\ resume_value' = value
    /\ lastResume' = value
    /\ resumeCalls' = resumeCalls + 1
    /\ decisions' = Append(SubSeq(decisions, 1, checkpoint.seq - 1), value)
    /\ pc' = checkpoint.next
    /\ result' = "none"
    /\ callSteps' = <<>>
    /\ UNCHANGED <<checkpoint, writes, node_locals, invocations, attemptInvoked,
                   suspensions, executed, failures, error, feedbacks,
                   restarted, inspected, detached>>

\* variant: a resume on a thread without a checkpoint is taken as a run on
\* the empty State
ResumeUnknownThread_AsRun(value) ==
    /\ pc = "idle"
    /\ ~checkpoint.exists
    /\ checkpoint' = [NoCheckpoint EXCEPT !.exists = TRUE, !.next = StartEdge]
    /\ writes' = writes + 1
    /\ result' = "Failed"
    /\ error' = "UnknownThread"
    /\ UNCHANGED <<pc, state, resumes, resume_value, node_locals, invocations,
                   attemptInvoked, entryState, suspensions, resumeCalls,
                   executed, failures, feedbacks, lastResume, others,
                   decisions, callSteps>>

\* resume(thread_id, value) on a thread without a checkpoint: UnknownThread
ResumeUnknownThread(value) ==
    /\ pc = "idle"
    /\ ~checkpoint.exists
    /\ result' = "Failed"
    /\ error' = "UnknownThread"
    /\ UNCHANGED <<checkpoint, writes, pc, state, resumes, resume_value,
                   node_locals, invocations, attemptInvoked, entryState,
                   suspensions, resumeCalls, executed, failures, feedbacks,
                   lastResume, others, decisions, callSteps>>

\* variant: the value of a resume on a thread that is not suspended is kept
\* for the next suspend call
ResumeNotSuspended_KeepsValue(value) ==
    /\ pc = "idle"
    /\ checkpoint.exists
    /\ ~checkpoint.suspended
    /\ checkpoint' = [checkpoint EXCEPT !.resumes = Append(@, value)]
    /\ writes' = writes + 1
    /\ result' = "Failed"
    /\ error' = "NotSuspended"
    /\ UNCHANGED <<pc, state, resumes, resume_value, node_locals, invocations,
                   attemptInvoked, entryState, suspensions, resumeCalls,
                   executed, failures, feedbacks, lastResume, others,
                   decisions, callSteps>>

\* resume(thread_id, value) on a thread that is not suspended: NotSuspended
ResumeNotSuspended(value) ==
    /\ pc = "idle"
    /\ checkpoint.exists
    /\ ~checkpoint.suspended
    /\ result' = "Failed"
    /\ error' = "NotSuspended"
    /\ UNCHANGED <<checkpoint, writes, pc, state, resumes, resume_value,
                   node_locals, invocations, attemptInvoked, entryState,
                   suspensions, resumeCalls, executed, failures, feedbacks,
                   lastResume, others, decisions, callSteps>>

\* snapshot = app.get_state(config): what the caller reads of the thread
get_state ==
    [next |-> IF checkpoint.exists /\ checkpoint.next # END
              THEN <<checkpoint.next>> ELSE <<>>,
     interrupts |-> IF checkpoint.suspended THEN <<checkpoint.envelope>> ELSE <<>>]

\* variant: reading the snapshot takes the pending interrupt off the thread
Inspect_TakesInterrupt ==
    /\ pc = "idle"
    /\ checkpoint.exists
    /\ get_state \in [next : {<<>>, <<"agent">>, <<"human_approval">>},
                      interrupts : {<<>>, <<checkpoint.envelope>>}]
    /\ inspected' = TRUE
    /\ checkpoint' = [checkpoint EXCEPT !.envelope = NoEnvelope]
    /\ writes' = writes + 1
    /\ UNCHANGED <<pc, state, resumes, resume_value, node_locals, result,
                   invocations, attemptInvoked, entryState, suspensions,
                   resumeCalls, executed, failures, error, feedbacks,
                   lastResume, restarted, apart, decisions, callSteps>>

\* inspect(thread_id): the caller reads the snapshot between two calls
Inspect ==
    /\ pc = "idle"
    /\ checkpoint.exists
    /\ get_state \in [next : {<<>>, <<"agent">>, <<"human_approval">>},
                      interrupts : {<<>>, <<checkpoint.envelope>>}]
    /\ inspected' = TRUE
    /\ UNCHANGED <<checkpoint, writes, pc, state, resumes, resume_value,
                   node_locals, result, invocations, attemptInvoked,
                   entryState, suspensions, resumeCalls, executed, failures,
                   error, feedbacks, lastResume, restarted, apart, decisions,
                   callSteps>>

\* variant: the factory builds its own MemorySaver, as create_agent_graph does
Recompile_NewSaver ==
    /\ pc = "idle"
    /\ checkpoint.suspended
    /\ checkpoint' = NoCheckpoint
    /\ writes' = writes + 1
    /\ state' = EmptyState
    /\ resumes' = <<>>
    /\ resume_value' = "none"
    /\ tool_calls' = <<>>
    /\ idx' = 0
    /\ tool_messages' = <<>>
    /\ feedback' = "none"
    /\ interrupt_count' = 0
    /\ restarted' = TRUE
    /\ UNCHANGED <<pc, result, invocations, attemptInvoked, entryState,
                   suspensions, resumeCalls, executed, failures, error,
                   feedbacks, lastResume, inspected, apart, decisions,
                   callSteps>>

\* workflow.compile(checkpointer=checkpointer) once more while the thread is
\* suspended: the executor and the frames of its nodes are new, the
\* module-level checkpointer and what it holds are the same
Recompile ==
    /\ pc = "idle"
    /\ checkpoint.suspended
    /\ state' = EmptyState
    /\ resumes' = <<>>
    /\ resume_value' = "none"
    /\ tool_calls' = <<>>
    /\ idx' = 0
    /\ tool_messages' = <<>>
    /\ feedback' = "none"
    /\ interrupt_count' = 0
    /\ restarted' = TRUE
    /\ UNCHANGED <<checkpoint, writes, pc, result, invocations, attemptInvoked,
                   entryState, suspensions, resumeCalls, executed, failures,
                   error, feedbacks, lastResume, inspected, apart, decisions,
                   callSteps>>

(***************************************************************************)
(* The interrupt primitive, as the gating node sees it.                    *)
(***************************************************************************)

\* variant: the loop keeps looking at the first ToolCall
CurrentToolCall_First == tool_calls[1]

\* tool_call, the loop variable of `for tool_call in tool_calls`
CurrentToolCall == tool_calls[idx]

\* variant: a suspend call always finds a value and never suspends
InterruptHasValue_Always == TRUE

\* the suspend call about to be made has a value: one recorded at its
\* position, or the caller's resume value not yet handed out
InterruptHasValue ==
    \/ interrupt_count + 1 <= Len(resumes)
    \/ resume_value # "none"

(***************************************************************************)
(* Node steps.                                                             *)
(***************************************************************************)

\* agent_node: the model answers, the response is the node's update
AgentNodeReturns ==
    /\ pc = "agent"
    /\ \E response \in Responses(state.messages) :
          CompleteNode("agent", agent_node(state, response))
    /\ suspensions' = 0
    /\ resumeCalls' = 0
    /\ decisions' = <<>>
    /\ UNCHANGED <<node_locals, invocations, attemptInvoked, failures, error,
                   feedbacks, lastResume, others>>

\* agent_node: llm_with_tools.invoke raises
AgentNodeRaises ==
    /\ pc = "agent"
    /\ Fail("agent")
    /\ UNCHANGED <<node_locals, invocations, attemptInvoked, feedbacks>>

\* human_approval_node is invoked (freshly or as a replay) and reaches the loop
HumanApprovalEnter ==
    /\ pc = "human_approval"
    /\ LET last_message == Last(state.messages)
       IN  IF last_message.type # "ai" \/ last_message.tool_calls = <<>>
           THEN /\ CompleteNode("human_approval", [messages |-> <<>>])
                /\ UNCHANGED <<node_locals, attemptInvoked, feedbacks>>
           ELSE /\ tool_calls' = last_message.tool_calls
                /\ idx' = 1
                /\ tool_messages' = <<>>
                /\ feedback' = "none"
                /\ interrupt_count' = 0
                /\ attemptInvoked' = {}
                /\ feedbacks' = <<>>
                /\ pc' = "for"
                /\ UNCHANGED <<checkpoint, writes, state, resumes,
                               resume_value, result, entryState, executed,
                               callSteps>>
    /\ UNCHANGED <<invocations, failures, error, suspensions, resumeCalls,
                   lastResume, others, decisions>>

\* variant: the caller's resume value is returned without being consumed
InterruptReturns_KeepsValue ==
    /\ pc = "for"
    /\ idx <= Len(tool_calls)
    /\ InterruptHasValue
    /\ IF interrupt_count + 1 <= Len(resumes)
       THEN feedback' = resumes[interrupt_count + 1]
       ELSE feedback' = resume_value
    /\ feedbacks' = Append(feedbacks, feedback')
    /\ interrupt_count' = interrupt_count + 1
    /\ pc' = "feedback"
    /\ UNCHANGED <<checkpoint, writes, state, resumes, resume_value,
                   tool_calls, idx, tool_messages, result, invocations,
                   attemptInvoked, entryState, suspensions, resumeCalls,
                   executed, failures, error, lastResume, others, decisions,
                   callSteps>>

\* feedback = interrupt(tool_data) returns a value instead of suspending
InterruptReturns ==
    /\ pc = "for"
    /\ idx <= Len(tool_calls)
    /\ InterruptHasValue
    /\ IF interrupt_count + 1 <= Len(resumes)
       THEN /\ feedback' = resumes[interrupt_count + 1]
            /\ UNCHANGED <<resumes, resume_value>>
       ELSE /\ feedback' = resume_value
            /\ resumes' = Append(resumes, resume_value)
            /\ resume_value' = "none"
    /\ feedbacks' = Append(feedbacks, feedback')
    /\ interrupt_count' = interrupt_count + 1
    /\ pc' = "feedback"
    /\ UNCHANGED <<checkpoint, writes, state, tool_calls, idx, tool_messages,
                   result, invocations, attemptInvoked, entryState,
                   suspensions, resumeCalls, executed, failures, error,
                   lastResume, others, decisions, callSteps>>

\* feedback = interrupt(tool_data) finds no value: the node is suspended
InterruptSuspends ==
    /\ pc = "for"
    /\ idx <= Len(tool_calls)
    /\ ~InterruptHasValue
    /\ Suspend("human_approval", tool_data(CurrentToolCall))
    /\ UNCHANGED <<state, resumes, resume_value, node_locals, invocations,
                   attemptInvoked, entryState, resumeCalls, executed, failures,
                   error, feedbacks, lastResume, others, decisions, callSteps>>

\* variant: the observation is also appended to state["messages"] in place
ToolInvokeReturns_InPlace ==
    /\ pc = "feedback"
    /\ IsApproved(feedback)
    /\ LET tool_call == CurrentToolCall
       IN  /\ invocations' = [invocations EXCEPT ![tool_call.id] = @ + 1]
           /\ attemptInvoked' = attemptInvoked \cup {tool_call.id}
           /\ tool_messages' = Append(tool_messages, ObservationMessage(tool_call))
           /\ state' = [state EXCEPT
                          !.messages = Append(@, ObservationMessage(tool_call))]
    /\ idx' = idx + 1
    /\ pc' = "for"
    /\ UNCHANGED <<checkpoint, writes, resumes, resume_value, tool_calls,
                   feedback, interrupt_count, result, entryState, suspensions,
                   resumeCalls, executed, failures, error, feedbacks,
                   lastResume, others, decisions, callSteps>>

\* the APPROVE branch: tool.invoke returns an observation
ToolInvokeReturns ==
    /\ pc = "feedback"
    /\ IsApproved(feedback)
    /\ LET tool_call == CurrentToolCall
       IN  /\ invocations' = [invocations EXCEPT ![tool_call.id] = @ + 1]
           /\ attemptInvoked' = attemptInvoked \cup {tool_call.id}
           /\ tool_messages' = Append(tool_messages, ObservationMessage(tool_call))
    /\ idx' = idx + 1
    /\ pc' = "for"
    /\ UNCHANGED <<checkpoint, writes, state, resumes, resume_value,
                   tool_calls, feedback, interrupt_count, result, entryState,
                   suspensions, resumeCalls, executed, failures, error,
                   feedbacks, lastResume, others, decisions, callSteps>>

\* the APPROVE branch: tool.invoke raises, nothing in the node catches it
ToolInvokeRaises ==
    /\ pc = "feedback"
    /\ IsApproved(feedback)
    /\ LET tool_call == CurrentToolCall
       IN  /\ invocations' = [invocations EXCEPT ![tool_call.id] = @ + 1]
           /\ attemptInvoked' = attemptInvoked \cup {tool_call.id}
    /\ Fail("human_approval")
    /\ UNCHANGED <<node_locals, feedbacks>>

\* variant: tool.invoke is hoisted above the test of feedback
ToolDenied_AfterInvoke ==
    /\ pc = "feedback"
    /\ ~IsApproved(feedback)
    /\ invocations' = [invocations EXCEPT ![CurrentToolCall.id] = @ + 1]
    /\ attemptInvoked' = attemptInvoked \cup {CurrentToolCall.id}
    /\ tool_messages' = Append(tool_messages, RefusalMessage(CurrentToolCall))
    /\ idx' = idx + 1
    /\ pc' = "for"
    /\ UNCHANGED <<checkpoint, writes, state, resumes, resume_value,
                   tool_calls, feedback, interrupt_count, result, entryState,
                   suspensions, resumeCalls, executed, failures, error,
                   feedbacks, lastResume, others, decisions, callSteps>>

\* the else branch: the refusal message is built, the tool is not touched
ToolDenied ==
    /\ pc = "feedback"
    /\ ~IsApproved(feedback)
    /\ tool_messages' = Append(tool_messages, RefusalMessage(CurrentToolCall))
    /\ idx' = idx + 1
    /\ pc' = "for"
    /\ UNCHANGED <<checkpoint, writes, state, resumes, resume_value,
                   tool_calls, feedback, interrupt_count, result, invocations,
                   attemptInvoked, entryState, suspensions, resumeCalls,
                   executed, failures, error, feedbacks, lastResume, others,
                   decisions, callSteps>>

\* the loop is over: human_approval_node returns {"messages": tool_messages}
HumanApprovalReturns ==
    /\ pc = "for"
    /\ idx > Len(tool_calls)
    /\ CompleteNode("human_approval", [messages |-> tool_messages])
    /\ UNCHANGED <<node_locals, invocations, attemptInvoked, failures, error,
                   feedbacks, suspensions, resumeCalls, lastResume, others,
                   decisions>>

(***************************************************************************)
(* The graphs with a review node: agent_with_hitl.py, agent_with_interrupt *)
(* .py and sample/simple_agent.py, each run on thread "1" and driven by    *)
(* the main() of its file or by a client that calls the compiled graph.    *)
(* The node bodies, routers, edges and the loops of main() are translated  *)
(* from the sources; stream, interrupt, update_state and ToolNode belong   *)
(* to the graph framework. The model and the tools always answer.          *)
(***************************************************************************)

calculator_name == "calculator"
search_web_name == "search_web"
add_numbers_name == "add_numbers"
multiply_numbers_name == "multiply_numbers"

\* the tools bound to the model (get_current_info is routed like search_web)
tools == IF graph = "simple" THEN {add_numbers_name, multiply_numbers_name}
         ELSE {calculator_name, search_web_name}

\* the assistant messages llm_with_tools.invoke may answer with
ReviewResponses(msgs) ==
    LET base == CountCalls(msgs)
    IN  { AIMessage([j \in 1..k |->
              ToolCall(base + j,
                       IF j % 2 = 1 THEN first ELSE CHOOSE n \in tools : n # first)]) :
            first \in tools, k \in 0..Min(MaxCalls, MaxToolCalls - base) }

\* what a reviewer or a client answers a review with
Answers == {"approve", "reject"}

\* should_continue of agent_with_hitl.py and agent_with_interrupt.py
hitl_should_continue(msgs) ==
    LET last_message == Last(msgs)
    IN  IF last_message.tool_calls # <<>>
        THEN IF \E j \in 1..Len(last_message.tool_calls) :
                    last_message.tool_calls[j].name = calculator_name
             THEN "human_review"
             ELSE "tools"
        ELSE "finalize"

\* should_continue of simple_agent.py
simple_should_continue(msgs) ==
    IF Last(msgs).tool_calls # <<>> THEN "human_approval" ELSE "finalize"

\* tool_calls_info, also the "tool_calls" of the interrupt value
tool_calls_info(msgs) == Last(msgs).tool_calls

\* human_review_node after interrupt returned approval_data: its update
human_review_node(msgs, data) ==
    IF data = "approve" THEN <<>>
    ELSE <<ToolMessage("cancelled", tool_calls_info(msgs)[1].id)>>

\* after_human_review of agent_with_hitl.py, on the merged State
after_human_review(msgs) ==
    IF msgs # <<>> /\ Last(msgs).type = "tool" THEN "agent" ELSE "tools"

\* after_approval of simple_agent.py
after_approval(flag) == IF flag THEN "tools" ELSE "agent"

\* the node after human_review: a conditional edge in agent_with_hitl.py,
\* add_edge("human_review", "tools") in agent_with_interrupt.py
HumanReviewEdge(msgs) ==
    IF graph = "hitl" THEN after_human_review(msgs) ELSE "tools"

\* the node after agent
AgentEdge(msgs) ==
    IF graph = "simple" THEN simple_should_continue(msgs)
    ELSE hitl_should_continue(msgs)

\* position of the latest assistant message (0 if none)
LatestAI(msgs) ==
    LET found == {p \in 1..Len(msgs) : msgs[p].type = "ai"}
    IN  IF found = {} THEN 0 ELSE CHOOSE p \in found : \A q \in found : q <= p

\* ToolNode: an installed build either requires the last message to be the
\* assistant message or takes the latest assistant message
ToolNodeAccepts(msgs) ==
    \/ Last(msgs).type = "ai"
    \/ tool_node_build = "latest_ai_message"

\* the ToolCalls ToolNode executes
ToolNodeCalls(msgs) == msgs[LatestAI(msgs)].tool_calls

\* the ids of a sequence of ToolCalls
IdsOf(calls) == {calls[j].id : j \in 1..Len(calls)}

\* no graph with a review node is running
\* init_session_state: the session before the first message is typed
NoSession ==
    /\ session_messages = <<>>
    /\ waiting_for_approval = FALSE
    /\ final_result = "none"
    /\ thread_id = "none"
    /\ trace_id = "none"
    /\ tool_info = <<>>
    /\ script_running = FALSE
    /\ config_thread_id = "none"

NoReview ==
    /\ graph = "hitl"
    /\ caller = "client"
    /\ tool_node_build = "last_message"
    /\ thread_messages = <<>>
    /\ snapshot_next = "none"
    /\ interrupts = <<>>
    /\ running = FALSE
    /\ resume = "none"
    /\ approval_data = <<>>
    /\ approved = FALSE
    /\ ran_tools = {}
    /\ final_answer = FALSE
    /\ main_pc = "none"
    /\ current_state = "initial_state"
    /\ stream_raised = FALSE
    /\ reviews = <<>>

\* no thread has been started
InitThread ==
    /\ checkpoint = NoCheckpoint
    /\ pc = "idle"
    /\ state = EmptyState
    /\ resumes = <<>>
    /\ resume_value = "none"
    /\ tool_calls = <<>>
    /\ idx = 0
    /\ tool_messages = <<>>
    /\ feedback = "none"
    /\ interrupt_count = 0
    /\ result = "none"
    /\ invocations = [id \in Ids |-> 0]
    /\ attemptInvoked = {}
    /\ entryState = EmptyState
    /\ suspensions = 0
    /\ resumeCalls = 0
    /\ executed = <<>>
    /\ failures = 0
    /\ error = "none"
    /\ feedbacks = <<>>
    /\ lastResume = "none"
    /\ restarted = FALSE
    /\ inspected = FALSE
    /\ writes = 0
    /\ decisions = <<>>
    /\ callSteps = <<>>

\* nothing has been handed to the reducer
NoMerge == [stepwise |-> <<>>, once |-> <<>>, steps |-> 0, done |-> FALSE]

\* thread ids of two sessions (uuid4 strings)
Threads == {"thread_a", "thread_b"}

Calls == 1..MaxOverlap

\* no call is in flight
NoCall == [thread |-> "thread_a", value |-> "none", pc |-> "none",
           state |-> EmptyState, resumes |-> <<>>, update |-> <<>>]

\* no call is in flight and the store is empty
NoCalls ==
    /\ store = [t \in Threads |-> NoCheckpoint]
    /\ origin = [t \in Threads |-> NoCheckpoint]
    /\ in_flight = [c \in Calls |-> NoCall]
    /\ saved = [t \in Threads |-> {}]

Init ==
    /\ InitThread
    /\ merge_in = [current |-> <<>>, a |-> HumanMessage, b |-> HumanMessage]
    /\ merge_out = NoMerge
    /\ NoCalls
    /\ NoReview
    /\ NoSession

Next ==
    \/ Start
    \/ RetryRun
    \/ \E value \in ResumeValues : Resume(value) /\ UNCHANGED session_vars
    \/ AgentNodeReturns
    \/ AgentNodeRaises
    \/ HumanApprovalEnter
    \/ InterruptReturns
    \/ InterruptSuspends
    \/ ToolInvokeReturns
    \/ ToolInvokeRaises
    \/ ToolDenied
    \/ HumanApprovalReturns

Spec == Init /\ [][Next]_vars

\* the steps the executor takes by itself inside a run or resume call
NodeSteps ==
    \/ AgentNodeReturns
    \/ AgentNodeRaises
    \/ HumanApprovalEnter
    \/ InterruptReturns
    \/ InterruptSuspends
    \/ ToolInvokeReturns
    \/ ToolInvokeRaises
    \/ ToolDenied
    \/ HumanApprovalReturns

\* agent_graph.stream is a synchronous call: once the caller has made it,
\* the executor keeps taking steps until the call returns
SpecTerminates == Init /\ [][Next]_vars /\ WF_vars(NodeSteps)

\* the thread driven by a caller that may also replace the executor
NextRestart ==
    \/ Next
    \/ Recompile

SpecRestart == Init /\ [][NextRestart]_vars

\* the thread driven by a caller that may also resume a thread that is
\* unknown or not suspended, and inspect it
NextCalls ==
    \/ Next
    \/ \E value \in ResumeValues : ResumeUnknownThread(value)
    \/ \E value \in ResumeValues : ResumeNotSuspended(value)
    \/ Inspect

SpecCalls == Init /\ [][NextCalls]_vars

(***************************************************************************)
(* The append reducer of agent_with_hitl.py and sample/simple_agent.py,    *)
(* applied to a channel value and two updates.                             *)
(***************************************************************************)

\* variant: the operands are swapped
operator_add_Swapped(x, y) == y \o x

\* operator.add, and lambda x, y: x + y, on two message lists
operator_add(x, y) == x \o y

\* messages a channel may hold
SampleMessages ==
    {HumanMessage, AIMessage(<<>>), AIMessage(<<ToolCall(1, web_search_name)>>),
     ToolMessage("observation", 1)}

\* the message sequences of length n
RECURSIVE SeqsOfLen(_)
SeqsOfLen(n) ==
    IF n = 0 THEN {<<>>}
    ELSE {Append(q, m) : q \in SeqsOfLen(n - 1), m \in SampleMessages}

InitMerge ==
    /\ InitThread
    /\ \E n \in 0..MaxLen :
          merge_in \in [current : SeqsOfLen(n), a : SampleMessages,
                        b : SampleMessages]
    /\ merge_out = NoMerge
    /\ NoCalls
    /\ NoReview
    /\ NoSession

\* the update [a] is merged into the channel
MergeFirst ==
    /\ merge_out.steps = 0
    /\ merge_out' = [merge_out EXCEPT
                        !.stepwise = operator_add(merge_in.current, <<merge_in.a>>),
                        !.steps = 1]
    /\ UNCHANGED <<thread_vars, review_vars, session_vars, merge_in, store, origin, in_flight, saved>>

\* the update [b] is merged into what the first merge left
MergeSecond ==
    /\ merge_out.steps = 1
    /\ merge_out' = [merge_out EXCEPT
                        !.stepwise = operator_add(merge_out.stepwise, <<merge_in.b>>),
                        !.steps = 2]
    /\ UNCHANGED <<thread_vars, review_vars, session_vars, merge_in, store, origin, in_flight, saved>>

\* the update [a, b] is merged into the channel at once
MergeOnce ==
    /\ ~merge_out.done
    /\ merge_out' = [merge_out EXCEPT
                        !.once = operator_add(merge_in.current,
                                              <<merge_in.a, merge_in.b>>),
                        !.done = TRUE]
    /\ UNCHANGED <<thread_vars, review_vars, session_vars, merge_in, store, origin, in_flight, saved>>

NextMerge ==
    \/ MergeFirst
    \/ MergeSecond
    \/ MergeOnce

SpecMerge == InitMerge /\ [][NextMerge]_vars

(***************************************************************************)
(* Resume calls in flight at once on the threads of one MemorySaver: each  *)
(* call loads the Checkpoint of its thread id, re-invokes the gating node  *)
(* and saves; nothing in agents_graph.py or streamlit_app_graph.py locks a *)
(* thread id between the load and the save.                                *)
(***************************************************************************)

\* the Checkpoint of a thread suspended at the only ToolCall of a response
SuspendedAt(name) ==
    LET call == ToolCall(1, name)
    IN  [exists |-> TRUE,
         state |-> [messages |-> <<HumanMessage, AIMessage(<<call>>)>>,
                    trace_id |-> "trace"],
         next |-> "human_approval", suspended |-> TRUE, resumes |-> <<>>,
         seq |-> 1, envelope |-> tool_data(call)]

InitStore ==
    /\ InitThread
    /\ merge_in = [current |-> <<>>, a |-> HumanMessage, b |-> HumanMessage]
    /\ merge_out = NoMerge
    /\ store \in [Threads -> {SuspendedAt(name) : name \in tools_by_name}]
    /\ origin = store
    /\ in_flight \in [Calls -> {[NoCall EXCEPT !.thread = t, !.value = v, !.pc = "ready"] :
                               t \in Threads, v \in ResumeValues}]
    /\ saved = [t \in Threads |-> {}]
    /\ NoReview
    /\ NoSession

\* variant: every call uses one fixed thread id, as the console programs do
ThreadKey_Fixed(c) == "thread_a"

\* config["configurable"]["thread_id"] of call c
ThreadKey(c) == in_flight[c].thread

\* the call reads the Checkpoint of its thread id; a thread that is not
\* suspended rejects the resume
Load(c) ==
    /\ in_flight[c].pc = "ready"
    /\ LET ck == store[ThreadKey(c)]
       IN  IF ck.exists /\ ck.suspended
           THEN in_flight' = [in_flight EXCEPT ![c].pc = "loaded", ![c].state = ck.state,
                                       ![c].resumes = ck.resumes]
           ELSE in_flight' = [in_flight EXCEPT ![c].pc = "rejected"]
    /\ UNCHANGED <<thread_vars, review_vars, session_vars, merge_in, merge_out, store, origin, saved>>

\* the gating node is re-invoked on the loaded State: its one suspend call
\* returns the value of the call, and the node builds its update
RunNode(c) ==
    /\ in_flight[c].pc = "loaded"
    /\ LET tool_call == Last(in_flight[c].state.messages).tool_calls[1]
       IN  in_flight' = [in_flight EXCEPT
                       ![c].pc = "ran",
                       ![c].resumes = Append(@, in_flight[c].value),
                       ![c].update = IF IsApproved(in_flight[c].value)
                                     THEN <<ObservationMessage(tool_call)>>
                                     ELSE <<RefusalMessage(tool_call)>>]
    /\ UNCHANGED <<thread_vars, review_vars, session_vars, merge_in, merge_out, store, origin, saved>>

\* the node completed: its update is merged into the copy the call loaded and
\* written to the store under the thread id of the call
Save(c) ==
    /\ in_flight[c].pc = "ran"
    /\ LET merged == MergeUpdate(in_flight[c].state, [messages |-> in_flight[c].update])
       IN  /\ store' = [store EXCEPT ![ThreadKey(c)] =
                          [exists |-> TRUE, state |-> merged,
                           next |-> NextNode("human_approval", merged),
                           suspended |-> FALSE, resumes |-> <<>>, seq |-> 0,
                           envelope |-> NoEnvelope]]
           /\ saved' = [saved EXCEPT ![ThreadKey(c)] = @ \cup {in_flight[c].update[1]}]
           /\ in_flight' = [in_flight EXCEPT ![c].pc = "done", ![c].state = merged]
    /\ UNCHANGED <<thread_vars, review_vars, session_vars, merge_in, merge_out, origin>>

NextStore ==
    \/ \E c \in Calls : Load(c)
    \/ \E c \in Calls : RunNode(c)
    \/ \E c \in Calls : Save(c)

SpecStore == InitStore /\ [][NextStore]_vars

(***************************************************************************)
(* Thread "1" of a graph with a review node, and its driver.               *)
(***************************************************************************)

\* what no step of these graphs touches
elsewhere == <<thread_vars, session_vars, merge_in, merge_out, store, origin, in_flight, saved>>

\* the build and the program are fixed for an execution
fixed == <<graph, caller, tool_node_build>>

InitReview ==
    /\ InitThread
    /\ merge_in = [current |-> <<>>, a |-> HumanMessage, b |-> HumanMessage]
    /\ merge_out = NoMerge
    /\ NoCalls
    /\ NoSession
    /\ graph \in {"hitl", "interrupt", "simple"}
    /\ caller \in {"client", "console"}
    /\ graph = "simple" => caller = "console"
    /\ tool_node_build \in {"last_message", "latest_ai_message"}
    /\ thread_messages = <<>>
    /\ snapshot_next = "none"
    /\ interrupts = <<>>
    /\ running = FALSE
    /\ resume = "none"
    /\ approval_data = <<>>
    /\ approved = FALSE
    /\ ran_tools = {}
    /\ final_answer = FALSE
    /\ main_pc = IF caller = "console" THEN "stream" ELSE "none"
    /\ current_state = "initial_state"
    /\ stream_raised = FALSE
    /\ reviews = <<>>

\* app.stream(input, config): a new run of the thread from the entry point
StreamInput ==
    /\ thread_messages' = operator_add(thread_messages, <<HumanMessage>>)
    /\ snapshot_next' = "agent"
    /\ interrupts' = <<>>
    /\ running' = TRUE
    /\ stream_raised' = FALSE

\* app.stream(None, config): the thread goes on from where it stands
StreamNone ==
    /\ running' = (snapshot_next \notin {"none", "end"})
    /\ stream_raised' = FALSE
    /\ UNCHANGED <<thread_messages, snapshot_next, interrupts>>

\* a client starts the thread
ClientStart ==
    /\ caller = "client"
    /\ ~running
    /\ snapshot_next = "none"
    /\ StreamInput
    /\ UNCHANGED <<fixed, resume, approval_data, approved, ran_tools,
                   final_answer, main_pc, current_state, reviews, elsewhere>>

\* a client answers the pending interrupt: app.stream(Command(resume=...))
ClientResume(answer) ==
    /\ caller = "client"
    /\ ~running
    /\ interrupts # <<>>
    /\ resume' = answer
    /\ running' = TRUE
    /\ stream_raised' = FALSE
    /\ reviews' = Append(reviews, [ids |-> IdsOf(interrupts), answer |-> answer])
    /\ UNCHANGED <<fixed, thread_messages, snapshot_next, interrupts,
                   approval_data, approved, ran_tools, final_answer, main_pc,
                   current_state, elsewhere>>

\* main(): for event in app.stream(current_state, config, ...)
MainStream ==
    /\ main_pc = "stream"
    /\ ~running
    /\ IF current_state = "initial_state" THEN StreamInput ELSE StreamNone
    /\ main_pc' = "streaming"
    /\ UNCHANGED <<fixed, resume, approval_data, approved, ran_tools,
                   final_answer, current_state, reviews, elsewhere>>

\* main(): the stream call is over. agent_with_hitl.py returns on the final
\* answer and otherwise reads the snapshot; agent_with_interrupt.py breaks on
\* the final answer, handles an exception, and otherwise loops; simple_agent
\* .py ends
MainStreamReturns ==
    /\ main_pc = "streaming"
    /\ ~running
    /\ main_pc' =
          CASE graph = "hitl" ->
                  IF final_answer \/ stream_raised THEN "ended" ELSE "get_state"
            [] graph = "interrupt" ->
                  IF stream_raised THEN "get_state"
                  ELSE IF final_answer THEN "ended" ELSE "stream"
            [] graph = "simple" -> "ended"
    /\ UNCHANGED <<fixed, thread_messages, snapshot_next, interrupts, running,
                   resume, approval_data, approved, ran_tools, final_answer,
                   current_state, stream_raised, reviews, elsewhere>>

\* main(): snapshot = app.get_state(config) and the tests on it
MainGetState ==
    /\ main_pc = "get_state"
    /\ main_pc' =
          IF graph = "hitl" /\ snapshot_next \in {"none", "end"} THEN "ended"
          ELSE IF interrupts # <<>> THEN "input" ELSE "ended"
    /\ UNCHANGED <<fixed, thread_messages, snapshot_next, interrupts, running,
                   resume, approval_data, approved, ran_tools, final_answer,
                   current_state, stream_raised, reviews, elsewhere>>

\* main(): the reviewer types the decision and main() calls
\* app.update_state(config, {"approved": ...}, as_node="human_review"): the
\* keys are no channels of AgentState, so the thread stands after
\* human_review with an empty update and no pending interrupt
MainInput(answer) ==
    /\ main_pc = "input"
    /\ reviews' = Append(reviews, [ids |-> IdsOf(interrupts), answer |-> answer])
    /\ interrupts' = <<>>
    /\ snapshot_next' = HumanReviewEdge(thread_messages)
    /\ current_state' = "None"
    /\ main_pc' = "stream"
    /\ UNCHANGED <<fixed, thread_messages, running, resume, approval_data,
                   approved, ran_tools, final_answer, stream_raised, elsewhere>>

\* agent_node: the model answers; the graph routes on the merged State
ReviewAgentNode ==
    /\ running
    /\ snapshot_next = "agent"
    /\ \E response \in ReviewResponses(thread_messages) :
          /\ thread_messages' = operator_add(thread_messages, <<response>>)
          /\ snapshot_next' = AgentEdge(thread_messages')
    /\ UNCHANGED <<fixed, interrupts, running, resume, approval_data, approved,
                   ran_tools, final_answer, main_pc, current_state,
                   stream_raised, reviews, elsewhere>>

\* human_review_node: interrupt finds no resume value and the thread is
\* suspended; the stream call ends, and main() of agent_with_interrupt.py
\* expects it to end with an exception
HumanReviewInterrupts ==
    /\ running
    /\ snapshot_next = "human_review"
    /\ resume = "none"
    /\ interrupts' = tool_calls_info(thread_messages)
    /\ running' = FALSE
    /\ stream_raised' \in IF graph = "interrupt" /\ caller = "console"
                         THEN {FALSE, TRUE} ELSE {FALSE}
    /\ UNCHANGED <<fixed, thread_messages, snapshot_next, resume,
                   approval_data, approved, ran_tools, final_answer, main_pc,
                   current_state, reviews, elsewhere>>

\* human_review_node: interrupt returns the resume value and the node
\* completes
HumanReviewReturns ==
    /\ running
    /\ snapshot_next = "human_review"
    /\ resume # "none"
    /\ approval_data' = Append(approval_data, resume)
    /\ resume' = "none"
    /\ interrupts' = <<>>
    /\ thread_messages' = operator_add(thread_messages,
                                       human_review_node(thread_messages, resume))
    /\ snapshot_next' = HumanReviewEdge(thread_messages')
    /\ UNCHANGED <<fixed, running, approved, ran_tools, final_answer, main_pc,
                   current_state, stream_raised, reviews, elsewhere>>

\* human_approval_node of simple_agent.py: the reviewer answers input()
HumanApprovalNode(answer) ==
    /\ running
    /\ snapshot_next = "human_approval"
    /\ approved' = (answer = "approve")
    /\ reviews' = Append(reviews, [ids |-> IdsOf(tool_calls_info(thread_messages)),
                                   answer |-> answer])
    /\ snapshot_next' = after_approval(approved')
    /\ UNCHANGED <<fixed, thread_messages, interrupts, running, resume,
                   approval_data, ran_tools, final_answer, main_pc,
                   current_state, stream_raised, elsewhere>>

\* ToolNode executes the ToolCalls and appends their results
ToolsNode ==
    /\ running
    /\ snapshot_next = "tools"
    /\ ToolNodeAccepts(thread_messages)
    /\ LET calls == ToolNodeCalls(thread_messages)
       IN  /\ ran_tools' = ran_tools \cup IdsOf(calls)
           /\ thread_messages' = operator_add(thread_messages,
                 [j \in 1..Len(calls) |-> ToolMessage("result", calls[j].id)])
    /\ snapshot_next' = "agent"
    /\ UNCHANGED <<fixed, interrupts, running, resume, approval_data, approved,
                   final_answer, main_pc, current_state, stream_raised,
                   reviews, elsewhere>>

\* ToolNode raises: the last message is not an assistant message
ToolsNodeRaises ==
    /\ running
    /\ snapshot_next = "tools"
    /\ ~ToolNodeAccepts(thread_messages)
    /\ running' = FALSE
    /\ stream_raised' = TRUE
    /\ UNCHANGED <<fixed, thread_messages, snapshot_next, interrupts, resume,
                   approval_data, approved, ran_tools, final_answer, main_pc,
                   current_state, reviews, elsewhere>>

\* finalize_node, and the edge to END
FinalizeNode ==
    /\ running
    /\ snapshot_next = "finalize"
    /\ final_answer' = TRUE
    /\ thread_messages' = operator_add(thread_messages, <<AIMessage(<<>>)>>)
    /\ snapshot_next' = "end"
    /\ running' = FALSE
    /\ UNCHANGED <<fixed, interrupts, resume, approval_data, approved,
                   ran_tools, main_pc, current_state, stream_raised, reviews,
                   elsewhere>>

NextReview ==
    \/ ClientStart
    \/ \E answer \in Answers : ClientResume(answer)
    \/ MainStream
    \/ MainStreamReturns
    \/ MainGetState
    \/ \E answer \in Answers : MainInput(answer)
    \/ ReviewAgentNode
    \/ HumanReviewInterrupts
    \/ HumanReviewReturns
    \/ \E answer \in Answers : HumanApprovalNode(answer)
    \/ ToolsNode
    \/ ToolsNodeRaises
    \/ FinalizeNode

SpecReview == InitReview /\ [][NextReview]_vars

(***************************************************************************)
(* The Streamlit page over the thread of agents_graph.  A script run that  *)
(* calls run_agent is followed step by step: the handler of the widget,    *)
(* the nodes the stream executes, and the events run_agent has processed   *)
(* when the stream ends.  Pages are offered only between script runs.      *)
(***************************************************************************)

\* the buttons feedback() draws
Buttons == {"APPROVE", "DENY"}

\* str(uuid.uuid4()): an id no thread of the checkpointer has
NewThreadId == IF thread_id = "thread_a" THEN "thread_b" ELSE "thread_a"

\* app(): the page shows the approval box with the two buttons
ApprovalOffered ==
    /\ ~script_running
    /\ waiting_for_approval
    /\ tool_info # <<>>

\* app(): the page shows the final result
FinalResultShown ==
    /\ ~script_running
    /\ final_result # "none"
    /\ ~waiting_for_approval

\* variant: the chat input is drawn whatever the flag says
ChatInputOffered_Always == ~script_running

\* app(): the page shows the chat input
ChatInputOffered ==
    /\ ~script_running
    /\ ~waiting_for_approval

\* the thread a new id addresses: no Checkpoint, nothing executed (InitThread
\* in the state after the step)
NewThread ==
    /\ checkpoint' = NoCheckpoint
    /\ pc' = "idle"
    /\ state' = EmptyState
    /\ resumes' = <<>>
    /\ resume_value' = "none"
    /\ tool_calls' = <<>>
    /\ idx' = 0
    /\ tool_messages' = <<>>
    /\ feedback' = "none"
    /\ interrupt_count' = 0
    /\ result' = "none"
    /\ invocations' = [id \in Ids |-> 0]
    /\ attemptInvoked' = {}
    /\ entryState' = EmptyState
    /\ suspensions' = 0
    /\ resumeCalls' = 0
    /\ executed' = <<>>
    /\ failures' = 0
    /\ error' = "none"
    /\ feedbacks' = <<>>
    /\ lastResume' = "none"
    /\ restarted' = FALSE
    /\ inspected' = FALSE
    /\ writes' = 0
    /\ decisions' = <<>>
    /\ callSteps' = <<>>

\* the user submits a message: reset_session, a new thread id, and run_agent
\* up to its stream call; the new id addresses a thread without Checkpoint
ChatInput ==
    /\ ChatInputOffered
    /\ session_messages' = <<"input">>
    /\ waiting_for_approval' = FALSE
    /\ final_result' = "none"
    /\ thread_id' = NewThreadId
    /\ trace_id' = "trace"
    /\ config_thread_id' = NewThreadId
    /\ script_running' = TRUE
    /\ NewThread
    /\ UNCHANGED <<tool_info, detached>>

\* run_agent([message]): the stream call on the new thread
RunAgentStreams ==
    /\ script_running
    /\ Start

\* the user clicks a button: feedback() clears the flag, app() appends the
\* click to the transcript and run_agent streams Command(resume=click)
Click(value) ==
    /\ ApprovalOffered
    /\ waiting_for_approval' = FALSE
    /\ session_messages' = Append(session_messages, value)
    /\ config_thread_id' = thread_id
    /\ script_running' = TRUE
    /\ UNCHANGED <<final_result, thread_id, trace_id, tool_info>>
    /\ Resume(value)

\* the stream ended: what the loop over its events has left in the session.
\* An __interrupt__ event stores the envelope, then sets the flag; the agent
\* event of a response without ToolCalls stores the final result; an
\* exception leaves the session as it was.  st.rerun() ends the script run.
RunAgentReturns ==
    /\ script_running
    /\ pc = "idle"
    /\ result # "none"
    /\ script_running' = FALSE
    /\ CASE result = "Suspended" ->
                /\ tool_info' = <<checkpoint.envelope>>
                /\ waiting_for_approval' = TRUE
                /\ UNCHANGED final_result
         [] result = "Done" ->
                /\ final_result' = Last(state.messages).content
                /\ UNCHANGED <<tool_info, waiting_for_approval>>
         [] OTHER ->
                UNCHANGED <<tool_info, waiting_for_approval, final_result>>
    /\ UNCHANGED <<session_messages, thread_id, trace_id, config_thread_id,
                   thread_vars, detached>>

InitSession == Init

NextSession ==
    \/ ChatInput
    \/ RunAgentStreams
    \/ \E value \in Buttons : Click(value)
    \/ NodeSteps
    \/ RunAgentReturns

SpecSession == InitSession /\ [][NextSession]_vars

(***************************************************************************)
(* Helpers of the properties.                                              *)
(***************************************************************************)

\* the thread is inside an execution of the gating node's loop
InGatingLoop == pc \in {"for", "feedback"}

\* the last call returned to the caller with this status
Returned(status) == pc = "idle" /\ result = status

\* position in msgs of the assistant message that issued tool_calls (0 if none)
IssuerIndex(msgs) ==
    LET found == {p \in 1..Len(msgs) : msgs[p].type = "ai" /\ msgs[p].tool_calls = tool_calls}
    IN  IF tool_calls = <<>> \/ found = {} THEN 0 ELSE CHOOSE p \in found : TRUE

\* the gating node has completed for the ToolCalls in tool_calls
GatingCompleted ==
    LET msgs == checkpoint.state.messages
    IN  IssuerIndex(msgs) > 0 /\ Len(msgs) > IssuerIndex(msgs)

\* the positions in msgs of the tool-result messages correlated with id
ResultsFor(msgs, id) ==
    {q \in 1..Len(msgs) : msgs[q].type = "tool" /\ msgs[q].tool_call_id = id}

(***************************************************************************)
(* C1. In the gating node, over any execution of a thread and every replay *)
(* after a suspension, the tool collaborator is invoked at most once per   *)
(* ToolCall correlation id, and no tool invocation happens in an execution *)
(* of the node that afterwards reaches a suspend point: when a call        *)
(* returns Suspended, the aborted execution has invoked no tool.           *)
(***************************************************************************)
C1_ToolInvokedAtMostOnce ==
    /\ \A id \in Ids : invocations[id] <= 1
    /\ (Returned("Suspended") => attemptInvoked = {})

(***************************************************************************)
(* C2. When the suspend call of a ToolCall returned a value other than     *)
(* "APPROVE", the tool collaborator is not invoked for that ToolCall in    *)
(* that execution of the node, the message built for it is the refusal     *)
(* tool-result carrying its correlation id, and once the node completes    *)
(* that message is in State at the ToolCall's position.                    *)
(***************************************************************************)
C2_DenyRefusesWithoutInvoking ==
    \A j \in 1..Len(feedbacks) :
        feedbacks[j] # "APPROVE" =>
            /\ tool_calls[j].id \notin attemptInvoked
            /\ (j < idx => tool_messages[j] = ToolMessage("refused", tool_calls[j].id))
            /\ (GatingCompleted =>
                  LET msgs == checkpoint.state.messages
                  IN  msgs[IssuerIndex(msgs) + j] = ToolMessage("refused", tool_calls[j].id))

C2_Witness ==
    /\ GatingCompleted
    /\ Len(feedbacks) = 2
    /\ feedbacks[1] = "APPROVE"
    /\ feedbacks[2] = "DENY"
    /\ tool_calls[2].id \notin attemptInvoked
    /\ Last(checkpoint.state.messages) = ToolMessage("refused", tool_calls[2].id)

(***************************************************************************)
(* C3. A tool is invoked for a ToolCall only after the suspend call raised *)
(* for that same ToolCall returned "APPROVE" in the same execution of the  *)
(* node: every correlation id invoked in the current execution belongs to  *)
(* a ToolCall whose suspend call has already returned "APPROVE".           *)
(***************************************************************************)
C3_InvokedOnlyAfterApprove ==
    \A id \in attemptInvoked :
        \E j \in 1..Len(feedbacks) :
            /\ j <= Len(tool_calls)
            /\ tool_calls[j].id = id
            /\ feedbacks[j] = "APPROVE"

C3_Witness ==
    /\ InGatingLoop
    /\ Len(feedbacks) = 2
    /\ feedbacks[1] = "DENY"
    /\ feedbacks[2] = "APPROVE"
    /\ attemptInvoked = {tool_calls[2].id}

(***************************************************************************)
(* C4. Whenever run or resume returns Suspended, the suspended node's      *)
(* partial update is not applied: the persisted State, and the executor's  *)
(* copy of it, equal the State the node was invoked with, even when the    *)
(* node had already built tool-result messages before the suspend call.    *)
(***************************************************************************)
C4_SuspendedKeepsEntryState ==
    Returned("Suspended") =>
        /\ checkpoint.suspended
        /\ checkpoint.state = entryState
        /\ state = entryState
        /\ Last(checkpoint.state.messages).type = "ai"

C4_Witness ==
    /\ Returned("Suspended")
    /\ checkpoint.seq = 2
    /\ Len(tool_messages) = 1
    /\ tool_messages[1].content = "observation"

(***************************************************************************)
(* C5. On resume the node is re-executed from its beginning: suspend calls *)
(* before the recorded sequence number return the recorded values, the one *)
(* at the recorded sequence number returns the caller's resume value, and  *)
(* no later one returns a value; every suspension is at the position after *)
(* the recorded values and carries the payload of the ToolCall at that     *)
(* position; so the gating node has suspended exactly k times, after at    *)
(* least k resume calls, when it completes for k ToolCalls.                *)
(***************************************************************************)
C5_SuspendsOncePerToolCall ==
    /\ (Returned("Suspended") =>
          /\ checkpoint.seq = Len(checkpoint.resumes) + 1
          /\ checkpoint.seq = suspensions
          /\ checkpoint.seq <= Len(Last(checkpoint.state.messages).tool_calls)
          /\ checkpoint.envelope =
                tool_data(Last(checkpoint.state.messages).tool_calls[checkpoint.seq]))
    /\ (InGatingLoop =>
          /\ Len(feedbacks) <= checkpoint.seq
          /\ \A j \in 1..Len(feedbacks) :
                feedbacks[j] = IF j < checkpoint.seq THEN checkpoint.resumes[j]
                               ELSE lastResume)
    /\ (Len(executed) > 0 /\ Last(executed) = "human_approval" =>
          /\ suspensions = Len(tool_calls)
          /\ resumeCalls >= Len(tool_calls)
          /\ Len(feedbacks) = Len(tool_calls))

C5_Witness ==
    /\ Len(executed) > 0
    /\ Last(executed) = "human_approval"
    /\ Len(tool_calls) = 2
    /\ suspensions = 2
    /\ resumeCalls = 2

(***************************************************************************)
(* C6. Recorded resume values are scoped to one visit of the gating node:  *)
(* the values recorded, pending or returned by suspend calls never         *)
(* outnumber the resume calls made since the node was freshly entered, a   *)
(* fresh entry starts with no recorded and no pending value, and a suspend *)
(* call returns a value only in a visit that has already suspended.        *)
(***************************************************************************)
C6_ResumeValuesScopedToVisit ==
    /\ Len(resumes) + (IF resume_value = "none" THEN 0 ELSE 1) <= resumeCalls
    /\ Len(checkpoint.resumes) <= resumeCalls
    /\ (InGatingLoop => Len(feedbacks) <= resumeCalls)
    /\ (InGatingLoop /\ Len(feedbacks) > 0 => suspensions >= 1)
    /\ (pc = "human_approval" /\ ~checkpoint.suspended =>
          resumes = <<>> /\ resume_value = "none" /\ resumeCalls = 0)

C6_Witness ==
    /\ pc = "for"
    /\ Len(executed) = 3
    /\ resumeCalls = 0
    /\ ~InterruptHasValue
    /\ \E id \in Ids : invocations[id] > 0

(***************************************************************************)
(* C7. After the model-call node the router yields exactly one decision:   *)
(* the gating node if and only if the last message of the merged State is  *)
(* an assistant message with at least one ToolCall, and terminal           *)
(* otherwise; the run is Done exactly in the terminal case.                *)
(***************************************************************************)
C7_RouterExactlyOne ==
    (Len(executed) > 0 /\ Last(executed) = "agent") =>
        LET last_message == Last(checkpoint.state.messages)
            hasCalls == last_message.type = "ai" /\ Len(last_message.tool_calls) >= 1
        IN  /\ checkpoint.next \in {"human_approval", END}
            /\ (checkpoint.next = "human_approval") <=> hasCalls
            /\ (checkpoint.next = END) <=> ~hasCalls
            /\ Returned("Done") <=> (checkpoint.next = END)

C7_Witness ==
    /\ Len(executed) = 3
    /\ Last(executed) = "agent"
    /\ checkpoint.next = "human_approval"
    /\ Len(Last(checkpoint.state.messages).tool_calls) = 2

(***************************************************************************)
(* C8. After the gating node completes, whatever the decisions were, the   *)
(* next node executed is the model-call node: the run is not Done and the  *)
(* gating node is not entered again directly.                              *)
(***************************************************************************)
C8_GatingRoutesToAgent ==
    /\ \A p \in 1..(Len(executed) - 1) :
          executed[p] = "human_approval" => executed[p + 1] = "agent"
    /\ (Len(executed) > 0 /\ Last(executed) = "human_approval" =>
          /\ checkpoint.next = "agent"
          /\ ~checkpoint.suspended
          /\ (pc = "agent" \/ (Returned("Failed") /\ error = "agent")))

C8_Witness ==
    /\ Len(executed) = 3
    /\ executed[2] = "human_approval"
    /\ executed[3] = "agent"
    /\ feedbacks = <<"APPROVE", "DENY">>

(***************************************************************************)
(* C9. When a node fails, the call returns Failed at once, the step that   *)
(* fails leaves the Checkpoint as it was, the persisted State is the State *)
(* the failed node was invoked with, and the next call on the thread       *)
(* re-invokes that node on that State.                                     *)
(***************************************************************************)
C9_FailureLeavesCheckpoint ==
    [][/\ (pc # "idle" /\ result' = "Failed") =>
            /\ pc' = "idle"
            /\ checkpoint' = checkpoint
            /\ checkpoint'.state = entryState
            /\ checkpoint'.next = error'
       /\ (Returned("Failed") /\ pc' # "idle") =>
            /\ pc' = error
            /\ state' = entryState
            /\ checkpoint' = checkpoint]_vars

C9_Witness ==
    /\ Returned("Failed")
    /\ error = "human_approval"
    /\ idx = 2
    /\ Len(tool_messages) = 1

(***************************************************************************)
(* C10. A failure of an approved tool invocation inside the gating node is *)
(* converted into a tool-result message and never propagated as a          *)
(* graph-level fault: no call returns Failed because of the gating node.   *)
(***************************************************************************)
C10_ToolFailureNotPropagated ==
    ~(Returned("Failed") /\ error = "human_approval")

\* the tool-result messages an execution of the gating node that is never
\* suspended builds for calls when its suspend calls return values
UninterruptedMessages(calls, values) ==
    [j \in 1..Len(calls) |->
        IF values[j] = "APPROVE" THEN ToolMessage("observation", calls[j].id)
        ELSE ToolMessage("refused", calls[j].id)]

(***************************************************************************)
(* C11. When a fresh executor is constructed on the same Checkpoint Store  *)
(* while the thread is suspended, the suspension point is still the        *)
(* persisted one, the resume call re-invokes the suspended node on the     *)
(* persisted State with the persisted resume values, and the State the     *)
(* node completes with is the one a never-suspended execution given the    *)
(* same decisions produces: the entry messages followed by one tool-result *)
(* message per ToolCall, in order.                                         *)
(***************************************************************************)
C11_FreshExecutorContinues ==
    /\ (Returned("Suspended") =>
          /\ checkpoint.suspended
          /\ checkpoint.next = "human_approval"
          /\ checkpoint.state = entryState
          /\ checkpoint.resumes = feedbacks)
    /\ (checkpoint.suspended /\ pc # "idle" =>
          /\ pc \in {"human_approval", "for", "feedback"}
          /\ state = checkpoint.state
          /\ Len(resumes) >= Len(checkpoint.resumes)
          /\ SubSeq(resumes, 1, Len(checkpoint.resumes)) = checkpoint.resumes)
    /\ (Len(executed) > 0 /\ Last(executed) = "human_approval" /\ pc = "agent" =>
          LET msgs == checkpoint.state.messages
              issuer == Len(msgs) - Len(tool_calls)
          IN  /\ issuer >= 1
              /\ msgs[issuer].tool_calls = tool_calls
              /\ SubSeq(msgs, issuer + 1, Len(msgs)) =
                    UninterruptedMessages(tool_calls, feedbacks))

C11_Witness ==
    /\ restarted
    /\ Len(executed) = 2
    /\ Last(executed) = "human_approval"
    /\ pc = "agent"
    /\ feedbacks = <<"APPROVE", "DENY">>

(***************************************************************************)
(* C12. A resume on a thread id that has no checkpoint fails with          *)
(* UnknownThread: the call returns Failed at once, no node runs, no tool   *)
(* is invoked and no checkpoint is created; while the thread has no        *)
(* checkpoint no resume value is ever accepted.                            *)
(***************************************************************************)
C12_UnknownThreadRejected ==
    [][/\ (\E value \in ResumeValues : ResumeUnknownThread(value)) =>
            /\ result' = "Failed"
            /\ error' = "UnknownThread"
            /\ pc' = "idle"
            /\ checkpoint' = NoCheckpoint
            /\ executed' = executed
            /\ invocations' = invocations
            /\ state' = state
       /\ ~checkpoint.exists =>
            /\ lastResume' = lastResume
            /\ resume_value' = "none"
            /\ (pc' # "idle" => pc' = StartEdge /\ checkpoint'.exists)]_vars

C12_Witness ==
    /\ Returned("Failed")
    /\ error = "UnknownThread"
    /\ ~checkpoint.exists
    /\ executed = <<>>

(***************************************************************************)
(* C13. A resume on a thread whose checkpoint is not suspended fails with  *)
(* NotSuspended and leaves the checkpoint as it was, and no resume value   *)
(* is accepted in that state.  A step that changes the checkpoint of a     *)
(* suspended thread either ends the suspension or moves it to the next     *)
(* sequence number with exactly one more recorded value, the caller's; so  *)
(* after a resume consumed a suspension, a further resume meets another    *)
(* suspension or is rejected.                                              *)
(***************************************************************************)
C13_NotSuspendedRejected ==
    [][/\ (\E value \in ResumeValues : ResumeNotSuspended(value)) =>
            /\ result' = "Failed"
            /\ error' = "NotSuspended"
            /\ pc' = "idle"
            /\ checkpoint' = checkpoint
            /\ executed' = executed
            /\ invocations' = invocations
       /\ (pc = "idle" /\ ~checkpoint.suspended) =>
            /\ lastResume' = lastResume
            /\ resumeCalls' = resumeCalls
            /\ resume_value' = "none"
       /\ (checkpoint.suspended /\ checkpoint' # checkpoint) =>
            \/ ~checkpoint'.suspended
            \/ /\ checkpoint'.seq = checkpoint.seq + 1
               /\ checkpoint'.resumes = Append(checkpoint.resumes, lastResume)
               /\ checkpoint'.state = checkpoint.state]_vars

C13_Witness ==
    /\ Returned("Failed")
    /\ error = "NotSuspended"
    /\ Len(executed) = 3
    /\ Last(executed) = "agent"
    /\ checkpoint.next = END
    /\ lastResume = "APPROVE"

IsPrefix(s, t) == Len(s) <= Len(t) /\ SubSeq(t, 1, Len(s)) = s

(***************************************************************************)
(* C15. The messages channel is append-only over every step of a thread:   *)
(* the persisted message sequence before a step is a prefix of the one     *)
(* after it, and so is the executor's copy; no step removes, reorders or   *)
(* replaces a message.                                                     *)
(***************************************************************************)
C15_MessagesAppendOnly ==
    [][/\ IsPrefix(checkpoint.state.messages, checkpoint'.state.messages)
       /\ IsPrefix(state.messages, state'.messages)]_vars

C15_Witness ==
    /\ Len(executed) = 4
    /\ Last(executed) = "human_approval"
    /\ Len(checkpoint.state.messages) = 6
    /\ checkpoint.state.messages[3].type = "tool"
    /\ checkpoint.state.messages[6].type = "tool"

(***************************************************************************)
(* C16. The append reducer is associative and keeps the order: for every   *)
(* channel value and all messages a and b, merging the update [a] and then *)
(* the update [b] gives the same sequence as merging [a, b] at once, and   *)
(* that sequence is the channel value followed by a and then b.            *)
(***************************************************************************)
C16_AppendMergeAssociative ==
    (merge_out.steps = 2 /\ merge_out.done) =>
        /\ merge_out.stepwise = merge_out.once
        /\ Len(merge_out.once) = Len(merge_in.current) + 2
        /\ IsPrefix(merge_in.current, merge_out.once)
        /\ merge_out.once[Len(merge_in.current) + 1] = merge_in.a
        /\ merge_out.once[Len(merge_in.current) + 2] = merge_in.b

C16_Witness ==
    /\ merge_out.steps = 2
    /\ merge_out.done
    /\ Len(merge_in.current) = 2
    /\ merge_in.a # merge_in.b
    /\ merge_in.current[1] # merge_in.current[2]

(***************************************************************************)
(* C17. Scenario 1: from one user message, when the model first answers    *)
(* with one ToolCall and then with a final answer, the caller resumes once *)
(* with "APPROVE" and nothing fails, the run has suspended exactly once    *)
(* (five Checkpoint writes: the thread, three nodes, one suspension), the  *)
(* tool has been invoked exactly once, and the final State holds exactly   *)
(* four messages: user, assistant with the ToolCall, tool result,          *)
(* assistant.                                                              *)
(***************************************************************************)
C17_ScenarioOne ==
    (/\ Returned("Done")
     /\ executed = <<"agent", "human_approval", "agent">>
     /\ failures = 0
     /\ feedbacks = <<"APPROVE">>) =>
        LET msgs == checkpoint.state.messages
            call == msgs[2].tool_calls[1]
        IN  /\ Len(msgs) = 4
            /\ msgs[1] = HumanMessage
            /\ msgs[2] = AIMessage(<<call>>)
            /\ msgs[3] = ToolMessage("observation", call.id)
            /\ msgs[4] = AIMessage(<<>>)
            /\ invocations[call.id] = 1
            /\ \A id \in Ids \ {call.id} : invocations[id] = 0
            /\ writes = 5
            /\ state = checkpoint.state

C17_Witness ==
    /\ Returned("Done")
    /\ executed = <<"agent", "human_approval", "agent">>
    /\ failures = 0
    /\ feedbacks = <<"APPROVE">>
    /\ Len(checkpoint.state.messages) = 4
    /\ checkpoint.state.messages[2].tool_calls[1].name = write_file_name

\* every call in flight has returned
AllReturned == \A c \in Calls : in_flight[c].pc \in {"done", "rejected"}

(***************************************************************************)
(* C18. When resume calls overlap on one thread id, the store serializes   *)
(* their load and save, so that under every interleaving, once all calls   *)
(* have returned, every message written by a completed step is in the      *)
(* final Checkpoint of its thread.                                         *)
(***************************************************************************)
C18_NoLostUpdate ==
    AllReturned =>
        \A t \in Threads : \A m \in saved[t] :
            \E p \in 1..Len(store[t].state.messages) :
                store[t].state.messages[p] = m

\* the Checkpoint a resume with `value` alone leaves on a thread that held ck
SoloResult(ck, value) ==
    LET msgs == ck.state.messages
        merged == [ck.state EXCEPT !.messages =
                      msgs \o UninterruptedMessages(Last(msgs).tool_calls, <<value>>)]
    IN  [exists |-> TRUE, state |-> merged, next |-> "agent",
         suspended |-> FALSE, resumes |-> <<>>, seq |-> 0, envelope |-> NoEnvelope]

(***************************************************************************)
(* C19. Calls on distinct thread ids do not interfere, under every         *)
(* interleaving: a call only ever holds the State and the resume values of *)
(* its own thread, the record of a thread no call names stays as it was,   *)
(* and the record of a thread exactly one call names is, before that call  *)
(* saves, the one it held and, after, the one that call alone produces,    *)
(* whatever the calls on other thread ids do.                              *)
(***************************************************************************)
C19_DistinctThreadsIsolated ==
    \A t \in Threads :
        LET on == {c \in Calls : in_flight[c].thread = t}
        IN  /\ (on = {}) => store[t] = origin[t]
            /\ \A c \in on :
                  /\ in_flight[c].pc \in {"loaded", "ran"} =>
                        in_flight[c].state = origin[t].state
                  /\ in_flight[c].pc = "loaded" => in_flight[c].resumes = origin[t].resumes
            /\ \A c \in on :
                  on = {c} =>
                     /\ in_flight[c].pc # "rejected"
                     /\ store[t] = IF in_flight[c].pc = "done"
                                   THEN SoloResult(origin[t], in_flight[c].value)
                                   ELSE origin[t]

C19_Witness ==
    /\ AllReturned
    /\ \A c, d \in Calls : c # d => in_flight[c].thread # in_flight[d].thread
    /\ in_flight[1].value = "APPROVE"
    /\ in_flight[2].value = "DENY"
    /\ origin["thread_a"] # origin["thread_b"]
    /\ \A t \in Threads : store[t] # origin[t]

(***************************************************************************)
(* C20. inspect never mutates the Checkpoint: a get_state step, taken any  *)
(* number of times, leaves the checkpoint, the executor and everything a   *)
(* later run or resume reads as they were, so the calls that follow behave *)
(* as without it.                                                          *)
(***************************************************************************)
C20_InspectLeavesCheckpoint ==
    [][Inspect =>
            /\ checkpoint' = checkpoint
            /\ UNCHANGED <<pc, state, resumes, resume_value, result, error,
                           executed, invocations, failures, lastResume>>]_vars

C20_Witness ==
    /\ inspected
    /\ Returned("Suspended")
    /\ checkpoint.seq = 2
    /\ get_state = [next |-> <<"human_approval">>,
                    interrupts |-> <<checkpoint.envelope>>]

(***************************************************************************)
(* C21. A thread holds at most one outstanding suspension: the checkpoint  *)
(* carries an Interrupt Envelope exactly when the thread is suspended, and *)
(* the several interrupts of one visit of the gating node are presented    *)
(* one at a time, in the order of the ToolCalls: the n-th suspension       *)
(* carries the payload of the n-th ToolCall, is raised only after the      *)
(* caller has answered the n-1 earlier ones, and a suspend call returns a  *)
(* value only for a suspension that was presented.                         *)
(***************************************************************************)
C21_OnePendingSuspension ==
    /\ (checkpoint.suspended <=> checkpoint.envelope # NoEnvelope)
    /\ suspensions <= resumeCalls + 1
    /\ (InGatingLoop => Len(feedbacks) <= suspensions)
    /\ (checkpoint.suspended =>
          /\ checkpoint.seq = suspensions
          /\ Len(checkpoint.resumes) = suspensions - 1
          /\ checkpoint.envelope =
                tool_data(Last(checkpoint.state.messages).tool_calls[suspensions]))

C21_Witness ==
    /\ Returned("Suspended")
    /\ suspensions = 2
    /\ resumeCalls = 1
    /\ checkpoint.envelope # tool_data(Last(checkpoint.state.messages).tool_calls[1])

\* the suspension a thread whose persisted State is st is left in once the
\* caller has given these resume values
SuspensionAfter(st, values) ==
    [exists |-> TRUE, state |-> st, next |-> "human_approval", suspended |-> TRUE,
     resumes |-> values, seq |-> Len(values) + 1,
     envelope |-> tool_data(Last(st.messages).tool_calls[Len(values) + 1])]

(***************************************************************************)
(* C22. Replay is deterministic: what an execution presents and persists   *)
(* is a function of the persisted State and of the resume values the       *)
(* caller has given, whether or not the executor was rebuilt on the store  *)
(* and the Checkpoint reloaded before a resume. Every suspension is the    *)
(* one determined by the State the gating node was entered with and the    *)
(* decisions given so far, and the State the node completes with is that   *)
(* entry State followed by the tool-result messages the decisions          *)
(* determine, the tool collaborator answering identically.                 *)
(***************************************************************************)
C22_ReplayDeterministic ==
    /\ (Returned("Suspended") =>
          /\ Len(decisions) < Len(Last(entryState.messages).tool_calls)
          /\ checkpoint = SuspensionAfter(entryState, decisions))
    /\ (Len(executed) > 0 /\ Last(executed) = "human_approval" /\ pc = "agent" =>
          LET msgs == checkpoint.state.messages
              issuer == Len(msgs) - Len(tool_calls)
          IN  /\ Len(decisions) = Len(tool_calls)
              /\ issuer >= 1
              /\ msgs[issuer] = AIMessage(tool_calls)
              /\ SubSeq(msgs, issuer + 1, Len(msgs)) =
                    UninterruptedMessages(tool_calls, decisions))

C22_Witness ==
    /\ restarted
    /\ Len(executed) > 0
    /\ Last(executed) = "human_approval"
    /\ pc = "agent"
    /\ decisions = <<"DENY", "APPROVE">>

\* the ToolCalls of msgs[p] name the calculator
HasCalculator(msgs, p) ==
    \E j \in 1..Len(msgs[p].tool_calls) : msgs[p].tool_calls[j].name = calculator_name

\* a review of the message that issued id was answered with approval
ApprovedFor(id) ==
    \E i \in 1..Len(reviews) : id \in reviews[i].ids /\ reviews[i].answer = "approve"

(***************************************************************************)
(* C23. In the agent_with_hitl graph the tools node never executes the     *)
(* ToolCalls of an assistant message that contains a calculator call       *)
(* unless the review of that message was completed with approval; after    *)
(* the agent node an assistant message with a calculator call stands       *)
(* before human_review, one with ToolCalls and no calculator call before   *)
(* tools, and one without ToolCalls before finalize.                       *)
(***************************************************************************)
C23_CalculatorNeedsApproval ==
    graph = "hitl" =>
        LET msgs == thread_messages
        IN  /\ \A p \in 1..Len(msgs) :
                  msgs[p].type = "ai" /\ HasCalculator(msgs, p) =>
                      \A id \in IdsOf(msgs[p].tool_calls) :
                          id \in ran_tools => ApprovedFor(id)
            /\ (msgs # <<>> /\ Last(msgs).type = "ai" /\
                   snapshot_next \in {"human_review", "tools", "finalize"} =>
                  /\ (snapshot_next = "finalize" <=> Last(msgs).tool_calls = <<>>)
                  /\ (snapshot_next = "human_review" => HasCalculator(msgs, Len(msgs)))
                  /\ (snapshot_next = "tools" /\ HasCalculator(msgs, Len(msgs)) =>
                        \A id \in IdsOf(Last(msgs).tool_calls) : ApprovedFor(id)))

\* this step completes a review: the node returns, or main() updates the
\* State as the node
ReviewCompletes ==
    \/ HumanReviewReturns
    \/ \E answer \in Answers : MainInput(answer)

(***************************************************************************)
(* C24. In the agent_with_hitl graph, after human_review the next node is  *)
(* tools when the review was approved, and agent when it was rejected, a   *)
(* feedback tool-result message then being the last message of the State:  *)
(* the decision is taken on the State after the merge.                     *)
(***************************************************************************)
C24_RoutesOnDecision ==
    [][graph = "hitl" /\ ReviewCompletes =>
          IF Last(reviews').answer = "approve"
          THEN snapshot_next' = "tools" /\ thread_messages' = thread_messages
          ELSE /\ snapshot_next' = "agent"
               /\ Last(thread_messages').type = "tool"
               /\ Last(thread_messages').tool_call_id \in Last(reviews').ids]_vars

\* the State holds a cancellation message for one of these ids
Cancelled(ids) ==
    \E q \in 1..Len(thread_messages) :
        /\ thread_messages[q].type = "tool"
        /\ thread_messages[q].content = "cancelled"
        /\ thread_messages[q].tool_call_id \in ids

(***************************************************************************)
(* C25. In the agent_with_interrupt graph, when the reviewer rejects with  *)
(* a resume value whose approved is false, a cancellation tool-result      *)
(* message is appended and the tools node does not execute the rejected    *)
(* ToolCalls.                                                              *)
(***************************************************************************)
C25_RejectedNotExecuted ==
    graph = "interrupt" /\ caller = "client" =>
        \A i \in 1..Len(approval_data) :
            approval_data[i] = "reject" =>
                /\ Cancelled(reviews[i].ids)
                /\ reviews[i].ids \cap ran_tools = {}

(***************************************************************************)
(* C26. In the console drivers the reviewer's decision reaches the         *)
(* suspended human_review node as the value its interrupt call returns:    *)
(* once the thread has left human_review the node has observed the typed   *)
(* decision, and after a rejection the cancellation message is in the      *)
(* State and the reviewed ToolCalls are not executed.                      *)
(***************************************************************************)
C26_DecisionDelivered ==
    caller = "console" /\ graph \in {"hitl", "interrupt"} =>
        \A i \in 1..Len(reviews) :
            snapshot_next # "human_review" \/ i < Len(reviews) =>
                /\ Len(approval_data) >= i
                /\ approval_data[i] = reviews[i].answer
                /\ (reviews[i].answer = "reject" =>
                      /\ Cancelled(reviews[i].ids)
                      /\ reviews[i].ids \cap ran_tools = {})

\* how many user messages the State holds
UserMessages ==
    Cardinality({q \in 1..Len(thread_messages) : thread_messages[q].type = "human"})

(***************************************************************************)
(* C27. In the console driver of agent_with_interrupt.py a suspension at   *)
(* human_review is followed by a prompt and a resume of the same thread:   *)
(* the driver never submits the initial input to a suspended thread, so    *)
(* the initial user message is in the State exactly once.                  *)
(***************************************************************************)
C27_InputSubmittedOnce ==
    graph = "interrupt" /\ caller = "console" =>
        /\ ~(main_pc = "stream" /\ interrupts # <<>> /\ current_state = "initial_state")
        /\ ~(main_pc = "stream" /\ interrupts # <<>> /\ Len(reviews) = 0)
        /\ UserMessages <= 1

(***************************************************************************)
(* C28. Whenever the model-call node is invoked, every ToolCall of every   *)
(* earlier assistant message has exactly one tool-result message with its  *)
(* correlation id in the State, and the tool-result messages of one gating *)
(* step follow their assistant message in the order of its ToolCalls.      *)
(***************************************************************************)
C28_EveryToolCallAnswered ==
    pc = "agent" =>
        LET msgs == state.messages
        IN  \A p \in 1..Len(msgs) :
                msgs[p].type = "ai" =>
                    \A j \in 1..Len(msgs[p].tool_calls) :
                        /\ Cardinality(ResultsFor(msgs, msgs[p].tool_calls[j].id)) = 1
                        /\ ResultsFor(msgs, msgs[p].tool_calls[j].id) = {p + j}

C28_Witness ==
    /\ pc = "agent"
    /\ Len(state.messages) = 6
    /\ state.messages[2].type = "ai"
    /\ state.messages[5].type = "ai"
    /\ state.messages[3].content = "refused"
    /\ state.messages[4].content = "refused"
    /\ state.messages[6].content = "observation"

(***************************************************************************)
(* C29. In the agent_with_hitl and simple_agent graphs, when a review was  *)
(* rejected and control is back at the agent node, every ToolCall of the   *)
(* rejected assistant message, not only the first, has a tool-result       *)
(* message with its correlation id in the State.                           *)
(***************************************************************************)
C29_RejectedCallsAnswered ==
    graph \in {"hitl", "simple"} /\ snapshot_next = "agent" =>
        \A i \in 1..Len(reviews) :
            reviews[i].answer = "reject" =>
                \A id \in reviews[i].ids : ResultsFor(thread_messages, id) # {}

\* how many of the nodes completed in the current call are node
CompletedInCall(node) == Cardinality({j \in 1..Len(callSteps) : callSteps[j] = node})

\* a bound on the steps the executor still takes before the call returns:
\* the nodes the call may still complete, each counted as the longest node,
\* and the steps left in the node being executed
StepsLeft ==
    LET longest == 2 * MaxCalls + 3
        in_node == CASE pc = "idle" -> 0
                     [] pc = "agent" -> 1
                     [] pc = "human_approval" ->
                            2 * Len(Last(state.messages).tool_calls) + 2
                     [] pc = "for" -> 2 * (Len(tool_calls) + 1 - idx) + 1
                     [] pc = "feedback" -> 2 * (Len(tool_calls) + 1 - idx)
    IN  (2 - Len(callSteps)) * longest + in_node

\* what holds of every call while it runs and when it has returned
BoundedCall ==
    /\ CompletedInCall("agent") <= 1
    /\ CompletedInCall("human_approval") <= 1
    /\ StepsLeft >= 0
    /\ (pc # "idle" => result = "none")
    /\ (pc = "idle" /\ checkpoint.exists => result \in {"Done", "Suspended", "Failed"})
    /\ (Returned("Done") => Last(checkpoint.state.messages) = AIMessage(<<>>))

(***************************************************************************)
(* C30. Every run or resume call terminates, with exactly one of Done,     *)
(* Suspended or Failed, after a bounded number of node executions: between *)
(* two returns to the caller at most one completion of the gating node and *)
(* one execution of the model-call node occur, and Done is returned only   *)
(* when the last message is an assistant message without ToolCalls.        *)
(* Termination is checked with a variant: while a call runs the executor   *)
(* can always take a step, and every step lowers StepsLeft, which is never *)
(* negative, so under the fairness of SpecTerminates every call returns.   *)
(***************************************************************************)
C30_CallsTerminate ==
    /\ []BoundedCall
    /\ [](pc # "idle" => ENABLED NodeSteps)
    /\ [][NodeSteps => StepsLeft' < StepsLeft]_vars

C30_Witness ==
    /\ Returned("Done")
    /\ callSteps = <<"human_approval", "agent">>
    /\ Len(executed) = 5

(***************************************************************************)
(* C31: while waiting_for_approval is true the page offers no chat input,  *)
(* so no new thread is started, and does not show the final result; the    *)
(* flag is left only by an APPROVE or DENY click, which clears it and      *)
(* resumes the thread of the same thread id with the value clicked; and    *)
(* whenever the flag is true, tool_info holds the envelope of the pending  *)
(* interrupt.                                                              *)
(***************************************************************************)
WaitingPage ==
    waiting_for_approval =>
        /\ ~ENABLED ChatInput
        /\ ~ChatInputOffered
        /\ ~FinalResultShown
        /\ pc = "idle"
        /\ checkpoint.suspended
        /\ checkpoint.envelope # NoEnvelope
        /\ tool_info = <<checkpoint.envelope>>
        /\ config_thread_id = thread_id

LeavesWaiting ==
    waiting_for_approval =>
        /\ thread_id' = thread_id
        /\ config_thread_id' = config_thread_id
        /\ ~waiting_for_approval' =>
               \E value \in Buttons :
                   /\ Last(session_messages') = value
                   /\ resume_value' = value
                   /\ lastResume' = value
                   /\ pc' = checkpoint.next
                   /\ state' = checkpoint.state
                   /\ checkpoint' = checkpoint

C31_WaitingForApproval ==
    /\ []WaitingPage
    /\ [][LeavesWaiting]_vars

\* a click has resumed the thread, and the page waits for the next approval
C31_Witness ==
    /\ waiting_for_approval
    /\ ~script_running
    /\ Len(session_messages) >= 2
    /\ Last(session_messages) \in Buttons
    /\ tool_info = <<checkpoint.envelope>>

====
